---- MODULE Spec2Model ----
(***************************************************************************)
(* TerminalCompletionService (terminalCompletionService.ts): the provider  *)
(* registry, the selection of the providers of one request, the concurrent *)
(* collection of their completions and the resource (path) completions.    *)
(*                                                                         *)
(* Strings are sequences of one-character strings.  A JavaScript Map is a  *)
(* sequence of [key, value] records in insertion order, without duplicate  *)
(* keys.  Objects that the code mutates in place (providers, completion    *)
(* items) live in heaps indexed by their identity.                         *)
(***************************************************************************)
EXTENDS Integers, Sequences, FiniteSets, TLC

VARIABLES _providers, provider, handles, configuration, detail, call, completionPromises, results, answer,
          resolved, previous

\* An optional value (T | undefined) is a sequence of at most one element.
Undefined == <<>>
Some(x) == <<x>>
IsDefined(o) == o # <<>>
ValueOf(o) == o[1]

\* ------------------------------------------------------------------ bounds
MaxHandles == 3

\* ------------------------------------------------------------ input domains
ExtensionIds == {"e1", "e2"}
ProviderIds == {<<"g">>, <<"h">>}
ProviderObjects == {"P1", "P2", "P3"}
TriggerCharacterLists == { <<>>, << <<"-">> >>, << <<"-">>, <<"/">> >> }
RegistryProviderObjects == {"P1", "P2"}
RegistryTriggerCharacterLists == { <<>>, << <<"-">> >> }

\* ------------------------------------------------------------------ JS Map
MapHas(m, k) == \E i \in DOMAIN m : m[i].key = k

\* Map.get, for a key the map has.
MapGet(m, k) == m[CHOOSE i \in DOMAIN m : m[i].key = k].value

\* A set that never finds the key.
MapSetAppends(m, k, v) == Append(m, [key |-> k, value |-> v])

\* Map.set: an existing key keeps its place.
MapSet(m, k, v) ==
    IF MapHas(m, k)
    THEN [i \in DOMAIN m |-> IF m[i].key = k THEN [key |-> k, value |-> v] ELSE m[i]]
    ELSE Append(m, [key |-> k, value |-> v])

MapDelete(m, k) == SelectSeq(m, LAMBDA e : e.key # k)

MapValues(m) == [i \in DOMAIN m |-> m[i].value]

RECURSIVE Flat(_)
Flat(ss) == IF ss = <<>> THEN <<>> ELSE Head(ss) \o Flat(Tail(ss))

\* ----------------------------------------------------------------- strings
Min(a, b) == IF a < b THEN a ELSE b
Max(a, b) == IF a > b THEN a ELSE b

\* String.prototype.substring(0, end): end is clamped to [0, length].
substring(s, end) == SubSeq(s, 1, Min(Max(end, 0), Len(s)))

\* String.prototype.endsWith
endsWith(s, suffix) ==
    /\ Len(suffix) <= Len(s)
    /\ SubSeq(s, Len(s) - Len(suffix) + 1, Len(s)) = suffix

\* The first index (from 0) at which sub occurs in s, or -1: String.prototype.indexOf
indexOf(s, sub) ==
    LET at == {i \in 0..(Len(s) - Len(sub)) : SubSeq(s, i + 1, i + Len(sub)) = sub}
    IN  IF at = {} THEN -1 ELSE CHOOSE i \in at : \A j \in at : i <= j

\* String.prototype.includes
includes(s, sub) == indexOf(s, sub) >= 0

\* ---------------------------------------------------------------- registry
\* get providers(): every provider of every extension map, in Map order.
providers(reg) == Flat(MapValues([i \in DOMAIN reg |-> [key |-> reg[i].key, value |-> MapValues(reg[i].value)]]))

\* The registrations, in enumeration order.
Entries(reg) ==
    Flat([i \in DOMAIN reg |->
            [j \in DOMAIN reg[i].value |->
                [extensionIdentifier |-> reg[i].key, id |-> reg[i].value[j].key,
                 provider |-> reg[i].value[j].value]]])

IsRegistered(reg, extensionIdentifier, id) ==
    MapHas(reg, extensionIdentifier) /\ MapHas(MapGet(reg, extensionIdentifier), id)

\* Lines 105-112: the new content of this._providers.
RegisterProviders(reg, extensionIdentifier, id, p) ==
    LET reg1 == IF ~MapHas(reg, extensionIdentifier)
                THEN MapSet(reg, extensionIdentifier, <<>>) ELSE reg
        extMap == MapGet(reg1, extensionIdentifier)
    IN  MapSet(reg1, extensionIdentifier, MapSet(extMap, id, p))

\* A closure that leaves the emptied extension map in the registry.
DisposeFnKeepsExtension(reg, extensionIdentifier, id) ==
    IF MapHas(reg, extensionIdentifier)
        THEN MapSet(reg, extensionIdentifier, MapDelete(MapGet(reg, extensionIdentifier), id))
        ELSE reg

\* A closure that drops the whole extension map.
DisposeFnDropsExtension(reg, extensionIdentifier, id) == MapDelete(reg, extensionIdentifier)

\* Lines 113-121: the function handed to toDisposable.
DisposeFn(reg, extensionIdentifier, id) ==
    IF MapHas(reg, extensionIdentifier)
        THEN LET extMap1 == MapDelete(MapGet(reg, extensionIdentifier), id)
             IN  IF Len(extMap1) = 0
                 THEN MapDelete(reg, extensionIdentifier)
                 ELSE MapSet(reg, extensionIdentifier, extMap1)
        ELSE reg

\* toDisposable(fn) (base/common/lifecycle.ts): the handle runs fn on its first
\* dispose() and does nothing on any later one.
toDisposable(extensionIdentifier, id) ==
    [extensionIdentifier |-> extensionIdentifier, id |-> id, isDisposed |-> FALSE]

\* A handle that runs its function on every dispose().
DisposeResultEveryCall(reg, h) == DisposeFn(reg, h.extensionIdentifier, h.id)

\* The registry after handle h's dispose() is called.
DisposeResult(reg, h) ==
    IF h.isDisposed THEN reg ELSE DisposeFn(reg, h.extensionIdentifier, h.id)

\* ------------------------------------------------------- trigger selection
\* A flag that counts as set when it is absent.
TruthyWhenAbsent(o) == ~IsDefined(o) \/ ValueOf(o)

\* A value that is defined and true (p.isBuiltin of line 150, `?? false` of lines 194-195).
Truthy(o) == IsDefined(o) /\ ValueOf(o)

\* A loop without the break of line 140.
RECURSIVE TriggerLoopNoBreak(_, _, _)
TriggerLoopNoBreak(chars, text, p) ==
    IF chars = <<>> THEN <<>>
    ELSE (IF endsWith(text, Head(chars)) THEN <<p>> ELSE <<>>) \o TriggerLoopNoBreak(Tail(chars), text, p)

\* Lines 137-142: the loop over one provider's trigger characters; the provider
\* is pushed at the first character the text ends with, and the loop breaks.
RECURSIVE TriggerLoop(_, _, _)
TriggerLoop(chars, text, p) ==
    IF chars = <<>> THEN <<>>
    ELSE IF endsWith(text, Head(chars)) THEN <<p>>
    ELSE TriggerLoop(Tail(chars), text, p)

\* Lines 132-144: providersToRequest.
providersToRequest(reg, heap, promptValue, cursorPosition) ==
    LET all == providers(reg)
    IN  Flat([i \in DOMAIN all |->
                IF ~IsDefined(heap[all[i]].triggerCharacters) THEN <<>>
                ELSE TriggerLoop(ValueOf(heap[all[i]].triggerCharacters),
                                 substring(promptValue, cursorPosition), all[i])])

\* Lines 131-147: the providers before the extension-completions filter.
SelectedProviders(reg, heap, promptValue, cursorPosition, triggerCharacter) ==
    IF triggerCharacter
    THEN providersToRequest(reg, heap, promptValue, cursorPosition)
    ELSE providers(reg)

\* A filter that is applied to trigger-character requests only.
ExtensionFilterNone(selected, heap, extensionCompletionsEnabled) == selected

\* Lines 149-151.
ExtensionFilter(selected, heap, extensionCompletionsEnabled) ==
    IF ~extensionCompletionsEnabled
    THEN SelectSeq(selected, LAMBDA p : Truthy(heap[p].isBuiltin))
    ELSE selected

\* ------------------------------------------------------------ completions
\* What a provider's provideCompletions hands back (line 161).
Completions(kind, items, rrc) == [kind |-> kind, items |-> items, resourceRequestConfig |-> rrc]
Throws == Completions("throw", Undefined, Undefined)
ReturnsUndefined == Completions("undefined", Undefined, Undefined)
ReturnsArray(items) == Completions("array", Some(items), Undefined)
ReturnsList(items, rrc) == Completions("list", items, rrc)

\* The state of one element of completionPromises.
Promise(state, value, completions) == [state |-> state, value |-> value, completions |-> completions]

\* A callback without the shell type check of lines 158-160.
StartPromiseAnyShell(heap, p, shellType) == Promise("pending", Undefined, Undefined)

\* Lines 158-161: the synchronous start of the callback for provider p.
StartPromise(heap, p, shellType) ==
    IF IsDefined(heap[p].shellTypes)
       /\ ~(\E i \in DOMAIN ValueOf(heap[p].shellTypes) : ValueOf(heap[p].shellTypes)[i] = shellType)
    THEN Promise("fulfilled", Undefined, Undefined)
    ELSE Promise("pending", Undefined, Undefined)

\* Line 166: completionItems.
CompletionItems(completions) ==
    IF completions.kind = "array" THEN ValueOf(completions.items)
    ELSE IF IsDefined(completions.items) THEN ValueOf(completions.items) ELSE <<>>

\* An annotation without the includes test of line 169.
AnnotatedDetailAlways(d, id, devModeEnabled) ==
    IF devModeEnabled
    THEN Some(<<"(">> \o id \o <<")", " ">> \o (IF IsDefined(d) THEN ValueOf(d) ELSE <<>>))
    ELSE d

\* Lines 169-171 for one item: the item's detail afterwards.
AnnotatedDetail(d, id, devModeEnabled) ==
    IF devModeEnabled /\ ~(IsDefined(d) /\ includes(ValueOf(d), id))
    THEN Some(<<"(">> \o id \o <<")", " ">> \o (IF IsDefined(d) THEN ValueOf(d) ELSE <<>>))
    ELSE d

\* Lines 168-173: the detail heap after the items were mapped, in order.
RECURSIVE Annotate(_, _, _, _)
Annotate(d, items, id, devModeEnabled) ==
    IF items = <<>> THEN d
    ELSE Annotate([d EXCEPT ![Head(items)] = AnnotatedDetail(d[Head(items)], id, devModeEnabled)],
                  Tail(items), id, devModeEnabled)

\* A provider's item as an element of a result.
ItemRef(n) == [item |-> n]
ItemRefs(items) == [i \in DOMAIN items |-> ItemRef(items[i])]

\* Lines 162-185 up to the await of line 179: the promise after the provider
\* returned `completions`.
AfterProvider(completions) ==
    IF completions.kind = "undefined" THEN Promise("fulfilled", Undefined, Some(completions))
    ELSE IF completions.kind = "array"
    THEN Promise("fulfilled", Some(ItemRefs(CompletionItems(completions))), Some(completions))
    ELSE IF IsDefined(completions.resourceRequestConfig)
    THEN Promise("resolving", Some(ItemRefs(CompletionItems(completions))), Some(completions))
    ELSE Promise("fulfilled", Undefined, Some(completions))

\* A Promise.all that places a value in the first free slot, in the order of arrival.
StoreResultOnArrival(values, i, value) ==
    LET k == CHOOSE j \in DOMAIN values :
                 ~IsDefined(values[j]) /\ \A l \in DOMAIN values : ~IsDefined(values[l]) => j <= l
    IN  [values EXCEPT ![k] = Some(value)]

\* Line 188: Promise.all keeps the value of the i-th promise in the i-th slot of
\* the array it resolves with; a slot is undefined until its promise is fulfilled.
StoreResult(values, i, value) == [values EXCEPT ![i] = Some(value)]

\* The slots of Promise.all after the promises that are fulfilled from the start.
RECURSIVE InitialResults(_, _, _)
InitialResults(values, promises, i) ==
    IF i > Len(promises) THEN values
    ELSE InitialResults(IF promises[i].state = "fulfilled"
                        THEN StoreResult(values, i, promises[i].value) ELSE values,
                        promises, i + 1)

\* Line 189: results.filter(result => !!result).flat()
Merge(values) ==
    Flat([i \in DOMAIN values |-> IF IsDefined(values[i]) THEN ValueOf(values[i]) ELSE <<>>])

\* ------------------------------------------------------ resource completions
\* String.prototype.split(separator), for a separator that is not empty.
RECURSIVE split(_, _)
split(s, separator) ==
    LET i == indexOf(s, separator)
    IN  IF i < 0 THEN <<s>>
        ELSE <<SubSeq(s, 1, i)>> \o split(SubSeq(s, i + Len(separator) + 1, Len(s)), separator)

\* Array.prototype.join(separator)
RECURSIVE join(_, _)
join(parts, separator) ==
    IF parts = <<>> THEN <<>>
    ELSE IF Len(parts) = 1 THEN parts[1]
    ELSE parts[1] \o separator \o join(Tail(parts), separator)

\* String.prototype.replace(pattern, ''), pattern a string: the first occurrence.
replace(s, pattern) ==
    LET i == indexOf(s, pattern)
    IN  IF i < 0 THEN s ELSE SubSeq(s, 1, i) \o SubSeq(s, i + Len(pattern) + 1, Len(s))

\* URI.from({scheme: 'file', path}) (base/common/uri.ts): an empty path is the
\* root, and a path gets its leading slash.
URIfrom(path) ==
    IF path = <<>> THEN <<"/">>
    ELSE IF Head(path) # "/" THEN <<"/">> \o path
    ELSE path

\* Line 202: parentDirPath.
parentDirPath(cwd, pathSeparator) ==
    LET parts == split(cwd, pathSeparator)
    IN  join(SubSeq(parts, 1, Len(parts) - 1), pathSeparator)

\* The first word in the place of the last.
firstWord(promptValue, cursorPosition) == split(substring(promptValue, cursorPosition), <<" ">>)[1]

\* Line 209: lastWord.
lastWord(promptValue, cursorPosition) ==
    LET words == split(substring(promptValue, cursorPosition), <<" ">>)
    IN  words[Len(words)]

\* A child of a listed directory; every location is of the scheme 'file', and
\* its fsPath is its path.
Child(fsPath, isDirectory, isFile) ==
    [resource |-> [scheme |-> "file", fsPath |-> fsPath], isDirectory |-> isDirectory, isFile |-> isFile]

\* IFileService.resolve(dir): the stat of the directories of the file system the
\* requests run against, undefined for a location that does not resolve.
fileService(dir) ==
    IF dir = <<"/">> THEN Some([children |-> Some(<< Child(<<"/", "h">>, TRUE, FALSE) >>)])
    ELSE IF dir = <<"/", "h">>
    THEN Some([children |-> Some(<< Child(<<"/", "h", "/", "u">>, TRUE, FALSE),
                                    Child(<<"/", "h", "/", "b">>, FALSE, TRUE) >>)])
    ELSE IF dir = <<"/", "h", "/", "u">>
    THEN Some([children |-> Some(<< Child(<<"/", "h", "/", "u", "/", "p">>, TRUE, FALSE),
                                    Child(<<"/", "h", "/", "u", "/", "a">>, FALSE, TRUE) >>)])
    ELSE IF dir = <<"/", "h", "/", "b">> THEN Some([children |-> Undefined])
    ELSE IF dir = <<"/", "q", "/", "r">>
    THEN Some([children |-> Some(<< Child(<<"/", "q", "/", "r", "/", "f">>, FALSE, TRUE) >>)])
    ELSE Undefined

\* Lines 219-228: the kind of one child, undefined when it is skipped.
KindOf(stat, foldersRequested, filesRequested) ==
    LET folder == IF foldersRequested /\ stat.isDirectory THEN Some("Folder") ELSE Undefined
    IN  IF filesRequested /\ ~stat.isDirectory /\ (stat.isFile \/ stat.resource.scheme = "file")
        THEN Some("File")
        ELSE folder

\* Lines 230-238: the completion of one child.
ResourceCompletion(stat, kind, prefix, cwd, promptValue, cursorPosition) ==
    LET label == prefix \o replace(stat.resource.fsPath, cwd)
    IN  [label |-> label,
         kind |-> kind,
         isDirectory |-> (kind = "Folder"),
         isFile |-> (kind = "File"),
         replacementIndex |-> cursorPosition - Len(lastWord(promptValue, cursorPosition)),
         replacementLength |-> Len(label)]

\* Lines 218-239: the completions of the children of one listed directory.
DirCompletions(children, prefix, cwd, foldersRequested, filesRequested, promptValue, cursorPosition) ==
    Flat([i \in DOMAIN children |->
            LET kind == KindOf(children[i], foldersRequested, filesRequested)
            IN  IF IsDefined(kind)
                THEN << ResourceCompletion(children[i], ValueOf(kind), prefix, cwd, promptValue, cursorPosition) >>
                ELSE <<>>])

\* Lines 204-207: dirToPrefixMap, a Map keyed by URI objects: cwd and parentCwd
\* are two objects, so the map always has both entries.
dirToPrefixMap(cwd, pathSeparator) ==
    << [key |-> cwd, value |-> <<".">>],
       [key |-> URIfrom(parentDirPath(cwd, pathSeparator)), value |-> <<".", ".">>] >>

\* A resolver that passes over a directory that does not list.
_resolveResourcesBestEffort(resourceRequestConfig, promptValue, cursorPosition) ==
    LET cwd == resourceRequestConfig.cwd
        foldersRequested == Truthy(resourceRequestConfig.foldersRequested)
        filesRequested == Truthy(resourceRequestConfig.filesRequested)
    IN  IF ~IsDefined(cwd) \/ (~foldersRequested /\ ~filesRequested) THEN Undefined
        ELSE LET dirs == dirToPrefixMap(ValueOf(cwd), resourceRequestConfig.pathSeparator)
                 stats == [i \in DOMAIN dirs |-> fileService(dirs[i].key)]
                 listed(i) == IsDefined(stats[i]) /\ IsDefined(ValueOf(stats[i]).children)
                 resourceCompletions ==
                     Flat([i \in DOMAIN dirs |->
                             IF listed(i)
                             THEN DirCompletions(ValueOf(ValueOf(stats[i]).children), dirs[i].value,
                                                 ValueOf(cwd), foldersRequested, filesRequested,
                                                 promptValue, cursorPosition)
                             ELSE <<>>])
             IN  IF Len(resourceCompletions) > 0 THEN Some(resourceCompletions) ELSE Undefined

\* Lines 192-243.
_resolveResources(resourceRequestConfig, promptValue, cursorPosition) ==
    LET cwd == resourceRequestConfig.cwd
        foldersRequested == Truthy(resourceRequestConfig.foldersRequested)
        filesRequested == Truthy(resourceRequestConfig.filesRequested)
    IN  IF ~IsDefined(cwd) \/ (~foldersRequested /\ ~filesRequested) THEN Undefined
        ELSE LET dirs == dirToPrefixMap(ValueOf(cwd), resourceRequestConfig.pathSeparator)
                 stats == [i \in DOMAIN dirs |-> fileService(dirs[i].key)]
                 listed(i) == IsDefined(stats[i]) /\ IsDefined(ValueOf(stats[i]).children)
             IN  IF \E i \in DOMAIN dirs : ~listed(i) THEN Undefined
                 ELSE LET resourceCompletions ==
                              Flat([i \in DOMAIN dirs |->
                                      DirCompletions(ValueOf(ValueOf(stats[i]).children), dirs[i].value,
                                                     ValueOf(cwd), foldersRequested, filesRequested,
                                                     promptValue, cursorPosition)])
                      IN  IF Len(resourceCompletions) > 0 THEN Some(resourceCompletions) ELSE Undefined

\* Lines 196-216: the directories handed to IFileService.resolve, in order; the
\* loop is left at the first one that does not list.
RECURSIVE resolveLoop(_)
resolveLoop(dirs) ==
    IF dirs = <<>> THEN <<>>
    ELSE LET fileStat == fileService(Head(dirs).key)
         IN  IF ~IsDefined(fileStat) \/ ~IsDefined(ValueOf(fileStat).children)
             THEN << Head(dirs).key >>
             ELSE << Head(dirs).key >> \o resolveLoop(Tail(dirs))

resolveCalls(resourceRequestConfig) ==
    LET cwd == resourceRequestConfig.cwd
        foldersRequested == Truthy(resourceRequestConfig.foldersRequested)
        filesRequested == Truthy(resourceRequestConfig.filesRequested)
    IN  IF ~IsDefined(cwd) \/ (~foldersRequested /\ ~filesRequested) THEN <<>>
        ELSE resolveLoop(dirToPrefixMap(ValueOf(cwd), resourceRequestConfig.pathSeparator))

\* ------------------------------------------------------------------ state
vars == <<_providers, provider, handles, configuration, detail, call, completionPromises, results, answer,
          resolved, previous>>

registryVars == <<_providers, provider, handles>>
requestVars == <<call, completionPromises, results, answer, resolved>>

\* The objects handed to the service: providers (lines 67-73) with their own
\* shellTypes and isBuiltin, and the completion items the providers hand back.
ProviderObject(shellTypes, isBuiltin) ==
    [id |-> <<>>, triggerCharacters |-> Undefined, shellTypes |-> shellTypes, isBuiltin |-> isBuiltin]

InitialProviders ==
    { [p \in ProviderObjects |->
         CASE p = "P1" -> ProviderObject(Undefined, Some(TRUE))
           [] p = "P2" -> ProviderObject(Some(<<"bash">>), Undefined)
           [] p = "P3" -> ProviderObject(Undefined, Some(FALSE))],
      [p \in ProviderObjects |->
         CASE p = "P1" -> ProviderObject(Some(<<"zsh">>), Some(TRUE))
           [] p = "P2" -> ProviderObject(Undefined, Some(FALSE))
           [] p = "P3" -> ProviderObject(Some(<<>>), Some(TRUE))] }

ItemObjects == {1, 2, 3}

\* The items' detail before any request: absent, empty, and one that holds "g".
InitialDetail ==
    [n \in ItemObjects |-> CASE n = 1 -> Undefined [] n = 2 -> Some(<<>>) [] n = 3 -> Some(<<"g">>)]

Configurations == [enableExtensionCompletions : BOOLEAN, devMode : BOOLEAN]

ShellTypes == {"bash", "zsh"}

\* (promptValue, cursorPosition)
Prompts ==
    { << <<>>, 0 >>,
      << <<"c", " ", "-">>, 3 >>,
      << <<"c", "/">>, 2 >>,
      << <<"c", "-", "x">>, 2 >> }

ResourceRequestConfig(filesRequested, foldersRequested, cwd, pathSeparator) ==
    [filesRequested |-> filesRequested, foldersRequested |-> foldersRequested,
     cwd |-> cwd, pathSeparator |-> pathSeparator]

\* The resource requests of the providers: one whose directories list, one
\* whose working directory has no children to list.
ListedCwd == ResourceRequestConfig(Some(TRUE), Some(TRUE), Some(<<"/", "h", "/", "u">>), <<"/">>)
UnlistedCwd == ResourceRequestConfig(Some(TRUE), Undefined, Some(<<"/", "h", "/", "b">>), <<"/">>)

\* Every shape a provider hands back.
ReturnValues ==
    { ReturnsUndefined,
      ReturnsArray(<<1, 2>>),
      ReturnsList(Some(<<3>>), Undefined),
      ReturnsList(Undefined, Undefined),
      ReturnsList(Some(<<2>>), Some(ListedCwd)),
      ReturnsList(Undefined, Some(ListedCwd)),
      ReturnsList(Some(<<3, 1>>), Some(UnlistedCwd)) }

InitService(configurations, providerTables) ==
    /\ _providers = <<>>
    /\ provider \in providerTables
    /\ handles = <<>>
    /\ configuration \in configurations
    /\ detail = InitialDetail
    /\ call = Undefined
    /\ completionPromises = <<>>
    /\ results = <<>>
    /\ answer = [state |-> "none", value |-> <<>>]
    /\ resolved = <<>>
    /\ previous = Undefined

\* ---------------------------------------------------------------- actions
registerTerminalCompletionProvider(extensionIdentifier, id, p, triggerCharacters) ==
    /\ Len(handles) < MaxHandles
    /\ provider' = [provider EXCEPT ![p].id = id, ![p].triggerCharacters = Some(triggerCharacters)]
    /\ _providers' = RegisterProviders(_providers, extensionIdentifier, id, p)
    /\ handles' = Append(handles, toDisposable(extensionIdentifier, id))
    /\ UNCHANGED <<configuration, detail, requestVars, previous>>

\* A dispose() that takes the provider it removes out of the request in flight.
disposeInFlight(h) ==
    LET reg == DisposeResult(_providers, handles[h])
        removed(i) ==
            /\ completionPromises[i].state = "pending"
            /\ \A k \in DOMAIN providers(reg) : providers(reg)[k] # ValueOf(call).providers[i]
    IN  /\ _providers' = reg
        /\ handles' = [handles EXCEPT ![h].isDisposed = TRUE]
        /\ completionPromises' = [i \in DOMAIN completionPromises |->
                                    IF removed(i) THEN Promise("fulfilled", Undefined, Undefined)
                                    ELSE completionPromises[i]]
        /\ results' = [i \in DOMAIN results |-> IF removed(i) THEN Some(Undefined) ELSE results[i]]
        /\ UNCHANGED <<provider, configuration, detail, call, answer, resolved, previous>>

\* The handle's dispose() (lines 113-121 through toDisposable).
dispose(h) ==
    /\ _providers' = DisposeResult(_providers, handles[h])
    /\ handles' = [handles EXCEPT ![h].isDisposed = TRUE]
    /\ UNCHANGED <<provider, configuration, detail, requestVars, previous>>

Settled(promise) == promise.state \in {"fulfilled", "rejected"}

\* Lines 124-157 and, for every provider, the callback of line 157 up to its
\* first await (the test of line 125 never holds: _providers is always a Map).
\* One request is in flight at a time.  What the caller keeps of the request
\* before (previous) is the caller's to set.
provideCompletions(promptValue, cursorPosition, shellType, triggerCharacter) ==
    /\ answer.state # "pending"
    /\ \A i \in DOMAIN completionPromises : Settled(completionPromises[i])
    /\ LET selected == SelectedProviders(_providers, provider, promptValue, cursorPosition, triggerCharacter)
           requested == ExtensionFilter(selected, provider, configuration.enableExtensionCompletions)
           promises == [i \in DOMAIN requested |-> StartPromise(provider, requested[i], shellType)]
       IN  /\ call' = Some([promptValue |-> promptValue, cursorPosition |-> cursorPosition,
                            shellType |-> shellType, triggerCharacter |-> triggerCharacter,
                            selected |-> selected, providers |-> requested])
           /\ completionPromises' = promises
           /\ results' = InitialResults([i \in DOMAIN requested |-> Undefined], promises, 1)
           /\ resolved' = [i \in DOMAIN requested |-> <<>>]
    /\ answer' = [state |-> "pending", value |-> <<>>]
    /\ UNCHANGED <<registryVars, configuration, detail>>

\* Line 161 resumes with the provider's value, and lines 162-185 run up to the
\* next await or the return.
providerReturns(i, completions) ==
    /\ completionPromises[i].state = "pending"
    /\ detail' = IF completions.kind = "undefined" THEN detail
                 ELSE Annotate(detail, CompletionItems(completions),
                               provider[ValueOf(call).providers[i]].id, configuration.devMode)
    /\ completionPromises' = [completionPromises EXCEPT ![i] = AfterProvider(completions)]
    /\ results' = IF AfterProvider(completions).state = "fulfilled"
                  THEN StoreResult(results, i, AfterProvider(completions).value)
                  ELSE results
    /\ UNCHANGED <<registryVars, configuration, call, answer, resolved, previous>>

\* Line 161: the provider's invocation throws or rejects.
providerThrows(i) ==
    /\ completionPromises[i].state = "pending"
    /\ completionPromises' = [completionPromises EXCEPT ![i] = Promise("rejected", Undefined, Some(Throws))]
    /\ UNCHANGED <<registryVars, configuration, detail, call, results, answer, resolved, previous>>

\* Lines 179-183: the value of the promise once _resolveResources has answered.
AfterResources(promise, promptValue, cursorPosition) ==
    LET resourceCompletions ==
            _resolveResources(ValueOf(ValueOf(promise.completions).resourceRequestConfig),
                              promptValue, cursorPosition)
        itemsWithModifiedLabels == ValueOf(promise.value)
    IN  Some(IF IsDefined(resourceCompletions)
             THEN itemsWithModifiedLabels \o ValueOf(resourceCompletions)
             ELSE itemsWithModifiedLabels)

\* Lines 179-183: _resolveResources has answered.
resourcesResolved(i) ==
    /\ completionPromises[i].state = "resolving"
    /\ LET value == AfterResources(completionPromises[i], ValueOf(call).promptValue, ValueOf(call).cursorPosition)
       IN  /\ completionPromises' = [completionPromises EXCEPT ![i] =
                                        Promise("fulfilled", value, completionPromises[i].completions)]
           /\ results' = StoreResult(results, i, value)
    /\ resolved' = [resolved EXCEPT ![i] = resolveCalls(ValueOf(ValueOf(completionPromises[i].completions).resourceRequestConfig))]
    /\ UNCHANGED <<registryVars, configuration, detail, call, answer, previous>>

\* Line 188: Promise.all rejects as soon as one promise is rejected.
collectRejects ==
    /\ answer.state = "pending"
    /\ \E i \in DOMAIN completionPromises : completionPromises[i].state = "rejected"
    /\ answer' = [state |-> "rejected", value |-> <<>>]
    /\ UNCHANGED <<registryVars, configuration, detail, call, completionPromises, results, resolved, previous>>

\* Lines 188-189: every promise is fulfilled, and the results are merged.
collectReturns ==
    /\ answer.state = "pending"
    /\ \A i \in DOMAIN completionPromises : completionPromises[i].state = "fulfilled"
    /\ answer' = [state |-> "fulfilled",
                  value |-> Merge([i \in DOMAIN results |-> ValueOf(results[i])])]
    /\ UNCHANGED <<registryVars, configuration, detail, call, completionPromises, results, resolved, previous>>

\* ---------------------------------------------------------- specifications
\* The registry alone: registrations of two provider objects under four keys,
\* and the disposal of their handles.
Register ==
    \E e \in ExtensionIds, id \in ProviderIds, p \in RegistryProviderObjects,
       tc \in RegistryTriggerCharacterLists :
        registerTerminalCompletionProvider(e, id, p, tc)

Dispose == \E h \in DOMAIN handles : dispose(h)

NextRegistry == Register \/ Dispose

PlainProviders == {[p \in ProviderObjects |-> ProviderObject(Undefined, Undefined)]}

InitRegistry ==
    InitService({[enableExtensionCompletions |-> TRUE, devMode |-> FALSE]}, PlainProviders)

SpecRegistry == InitRegistry /\ [][NextRegistry]_vars

\* Requests that select: the registrations differ in their trigger characters,
\* every provider hands back its own item, and nothing fails.
SelectRegistrations ==
    { <<"e1", <<"g">>, "P1", << <<"-">>, <<"/">> >> >>,
      <<"e1", <<"h">>, "P2", <<>> >>,
      <<"e2", <<"g">>, "P3", << <<"/">>, <<"-">>, <<" ", "-">> >> >> }

OwnItems(p) == CASE p = "P1" -> <<1>> [] p = "P2" -> <<2>> [] p = "P3" -> <<3>>

InitSelect ==
    InitService({c \in Configurations : ~c.devMode}, InitialProviders)

SelectRegister ==
    \E r \in SelectRegistrations : registerTerminalCompletionProvider(r[1], r[2], r[3], r[4])

Request ==
    \E pc \in Prompts, shellType \in ShellTypes, triggerCharacter \in BOOLEAN :
        provideCompletions(pc[1], pc[2], shellType, triggerCharacter) /\ UNCHANGED previous

SelectProviderReturns ==
    \E i \in DOMAIN completionPromises :
        providerReturns(i, ReturnsArray(OwnItems(ValueOf(call).providers[i])))

NextSelect ==
    \/ SelectRegister
    \/ Request
    \/ SelectProviderReturns
    \/ collectReturns

SpecSelect == InitSelect /\ [][NextSelect]_vars

\* Requests that collect: up to three providers that settle in any order, each
\* with a value of any shape or with an exception.

InitCollect ==
    InitService({[enableExtensionCompletions |-> TRUE, devMode |-> FALSE]}, PlainProviders)

FullRequest ==
    \E pc \in {<< <<"c", " ", "-">>, 3 >>} :
        provideCompletions(pc[1], pc[2], "bash", FALSE) /\ UNCHANGED previous

CollectProviderReturns ==
    \E i \in DOMAIN completionPromises :
        \E completions \in ReturnValues : providerReturns(i, completions)

ProviderThrows == \E i \in DOMAIN completionPromises : providerThrows(i)

ResourcesResolved == \E i \in DOMAIN completionPromises : resourcesResolved(i)

NextCollect ==
    \/ SelectRegister
    \/ FullRequest
    \/ CollectProviderReturns
    \/ ProviderThrows
    \/ ResourcesResolved
    \/ collectRejects
    \/ collectReturns

SpecCollect == InitCollect /\ [][NextCollect]_vars

\* Requests in and out of dev mode: providers under the ids "g" and "h" (one
\* provider object under both), handing back the same items request after request.
DevRegistrations ==
    { <<"e1", <<"g">>, "P1", <<>> >>,
      <<"e1", <<"h">>, "P2", <<>> >>,
      <<"e2", <<"h">>, "P1", <<>> >> }

DevReturnValues ==
    { ReturnsArray(<<1, 2>>),
      ReturnsArray(<<3, 3>>),
      ReturnsList(Some(<<2, 3>>), Undefined) }

InitDev ==
    InitService({c \in Configurations : c.enableExtensionCompletions}, PlainProviders)

DevRegister ==
    \E r \in DevRegistrations : registerTerminalCompletionProvider(r[1], r[2], r[3], r[4])

DevProviderReturns ==
    \E i \in DOMAIN completionPromises :
        \E completions \in DevReturnValues : providerReturns(i, completions)

NextDev ==
    \/ DevRegister
    \/ FullRequest
    \/ DevProviderReturns
    \/ collectReturns

SpecDev == InitDev /\ [][NextDev]_vars

\* Requests that are repeated: the caller keeps what a request answered and
\* calls again, in and out of dev mode, with one provider object registered
\* under the ids "g" and "h" that hands back arrays and completion lists with a
\* resource request.
RepeatRegistrations ==
    { <<"e1", <<"g">>, "P1", <<>> >>,
      <<"e2", <<"h">>, "P1", <<>> >> }

RepeatReturnValues ==
    { ReturnsArray(<<1, 2>>),
      ReturnsList(Some(<<1>>), Undefined),
      ReturnsList(Some(<<2, 3>>), Some(ListedCwd)) }

IsResourceCompletion(e) == "label" \in DOMAIN e

\* An answer as its caller reads it: the items of the array with their details
\* at that moment, and the resource completions.
Result ==
    [state |-> answer.state,
     value |-> [i \in DOMAIN answer.value |->
                  IF IsResourceCompletion(answer.value[i]) THEN answer.value[i]
                  ELSE [item |-> answer.value[i].item, detail |-> detail[answer.value[i].item]]]]

\* What the providers handed back to the request.
Outputs == [i \in DOMAIN completionPromises |-> completionPromises[i].completions]

\* The registry, with the provider objects and the handles given out, and the
\* configuration.
Environment ==
    [_providers |-> _providers, provider |-> provider, handles |-> handles,
     configuration |-> configuration]

\* What the caller keeps of an answered request: what it asked, what the
\* providers handed back, what was answered, and the environment it asked in.
Kept ==
    [call |-> ValueOf(call), outputs |-> Outputs, result |-> Result,
     environment |-> ValueOf(previous).environment]

InitRepeat ==
    InitService({c \in Configurations : c.enableExtensionCompletions}, PlainProviders)

RepeatRegister ==
    \E r \in RepeatRegistrations : registerTerminalCompletionProvider(r[1], r[2], r[3], r[4])

RepeatRequest ==
    \E pc \in {<< <<"c", " ", "-">>, 3 >>} :
        /\ provideCompletions(pc[1], pc[2], "bash", FALSE)
        /\ previous' = Some([environment |-> Environment,
                             kept |-> IF answer.state = "fulfilled" THEN Some(Kept) ELSE Undefined])

RepeatProviderReturns ==
    \E i \in DOMAIN completionPromises :
        \E completions \in RepeatReturnValues : providerReturns(i, completions)

NextRepeat ==
    \/ RepeatRegister
    \/ RepeatRequest
    \/ RepeatProviderReturns
    \/ ResourcesResolved
    \/ collectReturns

SpecRepeat == InitRepeat /\ [][NextRepeat]_vars

\* Requests that resolve resources: one or two providers hand back a completion
\* list with a resource request, for prompts and cursors of several shapes.
\* The working directories: one that lists as its parent does, the root, a
\* file (no children), one whose parent does not resolve, and none.
RootCwd == ResourceRequestConfig(Some(TRUE), Some(TRUE), Some(<<"/">>), <<"/">>)
ParentUnlistedCwd == ResourceRequestConfig(Some(TRUE), Some(TRUE), Some(<<"/", "q", "/", "r">>), <<"/">>)
NoCwd == ResourceRequestConfig(Some(TRUE), Some(TRUE), Undefined, <<"/">>)
NothingRequested == ResourceRequestConfig(Some(FALSE), Undefined, Some(<<"/", "h", "/", "u">>), <<"/">>)

ResolveConfigs == {ListedCwd, RootCwd, UnlistedCwd, ParentUnlistedCwd, NoCwd, NothingRequested}

ResolveReturnValues == {ReturnsList(Some(<<1>>), Some(config)) : config \in ResolveConfigs}

ResolveRegistrations ==
    { <<"e1", <<"g">>, "P1", <<>> >>,
      <<"e1", <<"h">>, "P2", <<>> >> }

\* (promptValue, cursorPosition), 0 <= cursorPosition <= promptValue.length
ResolvePrompts ==
    { << <<>>, 0 >>,
      << <<"c", "d">>, 0 >>,
      << <<"c", " ">>, 2 >>,
      << <<"c", " ", ".", "/", "p">>, 5 >>,
      << <<"c", " ", ".", "/", "p">>, 3 >>,
      << <<"a", " ", "b", " ", "c">>, 5 >> }

InitResolve ==
    InitService({[enableExtensionCompletions |-> TRUE, devMode |-> FALSE]}, PlainProviders)

ResolveRegister ==
    \E r \in ResolveRegistrations : registerTerminalCompletionProvider(r[1], r[2], r[3], r[4])

ResolveRequest ==
    \E pc \in ResolvePrompts :
        provideCompletions(pc[1], pc[2], "bash", FALSE) /\ UNCHANGED previous

ResolveProviderReturns ==
    \E i \in DOMAIN completionPromises :
        \E completions \in ResolveReturnValues : providerReturns(i, completions)

NextResolve ==
    \/ ResolveRegister
    \/ ResolveRequest
    \/ ResolveProviderReturns
    \/ ResourcesResolved
    \/ collectReturns

SpecResolve == InitResolve /\ [][NextResolve]_vars

\* Requests with the registry changing under them: providers are registered
\* and disposed while the invocations of a request are in flight.
InitSnapshot ==
    InitService({[enableExtensionCompletions |-> TRUE, devMode |-> FALSE]}, PlainProviders)

NextSnapshot ==
    \/ SelectRegister
    \/ Dispose
    \/ FullRequest
    \/ SelectProviderReturns
    \/ collectReturns

SpecSnapshot == InitSnapshot /\ [][NextSnapshot]_vars

\* ------------------------------------------------------------------ claims
SameKey(a, b) == a.extensionIdentifier = b.extensionIdentifier /\ a.id = b.id

\* The registrations under other keys than h's, in enumeration order.
OtherEntries(reg, h) == SelectSeq(Entries(reg), LAMBDA e : ~SameKey(e, h))

RegisterStep == Len(handles') = Len(handles) + 1
NewHandle == handles'[Len(handles')]
FirstDisposeStep(h) == ~handles[h].isDisposed /\ handles'[h].isDisposed

\* C2: registering under a key that is not registered makes the enumeration one
\* longer and leaves every other registration as it was, and the returned
\* handle's dispose() then gives back the registry of before; the first
\* dispose() of a handle whose key is registered makes the enumeration one
\* shorter and leaves every other registration as it was.
C2_RegisterDisposeRoundTrip ==
    [][ /\ (RegisterStep /\ ~IsRegistered(_providers, NewHandle.extensionIdentifier, NewHandle.id))
           => /\ Len(providers(_providers')) = Len(providers(_providers)) + 1
              /\ OtherEntries(_providers', NewHandle) = Entries(_providers)
              /\ DisposeResult(_providers', NewHandle) = _providers
        /\ \A h \in DOMAIN handles :
             (FirstDisposeStep(h) /\ IsRegistered(_providers, handles[h].extensionIdentifier, handles[h].id))
             => /\ Len(providers(_providers')) = Len(providers(_providers)) - 1
                /\ Entries(_providers') = OtherEntries(_providers, handles[h])
      ]_vars

\* Two registrations under two keys, the second one disposed: 1, 2, 1 providers.
C2_Witness ==
    /\ Len(handles) = 2
    /\ ~SameKey(handles[1], handles[2])
    /\ ~handles[1].isDisposed /\ handles[2].isDisposed
    /\ Len(providers(_providers)) = 1
    /\ IsRegistered(_providers, handles[1].extensionIdentifier, handles[1].id)

\* C3: the registry never holds two registrations under one key, and a
\* registration under a registered key puts the new provider in the place of
\* the earlier one without the enumeration growing.
NoDuplicateKeys ==
    \A i, j \in DOMAIN Entries(_providers) :
        SameKey(Entries(_providers)[i], Entries(_providers)[j]) => i = j

C3_KeyUniqueness ==
    /\ []NoDuplicateKeys
    /\ [][ \A e \in ExtensionIds, id \in ProviderIds, p \in ProviderObjects, tc \in TriggerCharacterLists :
             (registerTerminalCompletionProvider(e, id, p, tc) /\ IsRegistered(_providers, e, id))
             => /\ Len(providers(_providers')) = Len(providers(_providers))
                /\ MapGet(MapGet(_providers', e), id) = p
                /\ \A i \in DOMAIN Entries(_providers') :
                     SameKey(Entries(_providers')[i], [extensionIdentifier |-> e, id |-> id])
                     => Entries(_providers')[i].provider = p
         ]_vars

\* P1 and then P2 were registered under one key: P2 alone is enumerated.
C3_Witness ==
    /\ Len(handles) = 2
    /\ SameKey(handles[1], handles[2])
    /\ ~handles[1].isDisposed /\ ~handles[2].isDisposed
    /\ provider["P1"].id = handles[1].id
    /\ providers(_providers) = <<"P2">>

StartStep == answer.state # "pending" /\ answer'.state = "pending"
Started == ValueOf(call')

\* x is a suffix of text.
IsSuffix(x, text) == \E k \in 0..Len(text) : text = SubSeq(text, 1, k) \o x

\* promptValue[0..cursorPosition)
UpToCursor(c) == [i \in 1..c.cursorPosition |-> c.promptValue[i]]

\* Provider p has a trigger character that the prompt up to the cursor ends with.
HasMatchingTrigger(p, c) ==
    /\ IsDefined(provider[p].triggerCharacters)
    /\ \E k \in DOMAIN ValueOf(provider[p].triggerCharacters) :
         IsSuffix(ValueOf(provider[p].triggerCharacters)[k], UpToCursor(c))

\* C5: in trigger-character mode the selected providers are the enumerated
\* providers that have a trigger character the prompt up to the cursor ends
\* with, each once and in enumeration order (none that has no trigger
\* character); otherwise they are all the enumerated providers.
C5_TriggerSelection ==
    [][ StartStep =>
          /\ Started.triggerCharacter
               => Started.selected =
                    SelectSeq(providers(_providers), LAMBDA p : HasMatchingTrigger(p, Started))
          /\ ~Started.triggerCharacter => Started.selected = providers(_providers)
      ]_vars

\* A trigger-character request with the cursor after "c -": P1 ("-", "/") and
\* P3 ("/", "-", " -") are selected once each, P2 (no trigger character) is not.
C5_Witness ==
    /\ IsDefined(call)
    /\ ValueOf(call).triggerCharacter
    /\ ValueOf(call).promptValue = <<"c", " ", "-">>
    /\ providers(_providers) = <<"P1", "P2", "P3">>
    /\ provider["P2"].triggerCharacters = Some(<<>>)
    /\ ValueOf(call).selected = <<"P1", "P3">>

IsBuiltinFlagged(p) == provider[p].isBuiltin = Some(TRUE)

\* The provider whose item n is.
OwnerOf(n) == CHOOSE p \in ProviderObjects : \E i \in DOMAIN OwnItems(p) : OwnItems(p)[i] = n

\* C6: with extension completions disabled, the requested providers are the
\* selected providers that are flagged built-in, in both modes, only those get
\* a promise, and no item of another provider is in the result; with extension
\* completions enabled the requested providers are the selected ones.
C6_ExtensionPolicy ==
    /\ [][ StartStep =>
             /\ ~configuration.enableExtensionCompletions
                  => /\ Started.providers = SelectSeq(Started.selected, IsBuiltinFlagged)
                     /\ Len(completionPromises') = Len(Started.providers)
             /\ configuration.enableExtensionCompletions => Started.providers = Started.selected
         ]_vars
    /\ [](~configuration.enableExtensionCompletions
            => \A i \in DOMAIN answer.value : IsBuiltinFlagged(OwnerOf(answer.value[i].item)))

\* Extension completions are disabled, a provider that is not built-in was
\* selected, and the result holds the item of the built-in one alone.
C6_Witness ==
    /\ ~configuration.enableExtensionCompletions
    /\ IsDefined(call)
    /\ \E i \in DOMAIN ValueOf(call).selected : ~IsBuiltinFlagged(ValueOf(call).selected[i])
    /\ answer.state = "fulfilled"
    /\ Len(answer.value) = 1

\* Provider p declares shell types and shellType is not among them.
ExcludesShell(p, shellType) ==
    /\ IsDefined(provider[p].shellTypes)
    /\ \A k \in DOMAIN ValueOf(provider[p].shellTypes) : ValueOf(provider[p].shellTypes)[k] # shellType

\* The items the requested providers hand back, those of the providers that
\* exclude the request's shell type left out.
ExpectedOwnItems(c) ==
    Flat([i \in DOMAIN c.providers |->
            IF ExcludesShell(c.providers[i], c.shellType) THEN <<>>
            ELSE ItemRefs(OwnItems(c.providers[i]))])

\* C7: a requested provider that declares shell types without the request's
\* shell type is not invoked (its promise is fulfilled with undefined at once,
\* not rejected), every other requested provider is invoked, and the result is
\* made of the other providers' items.
C7_ShellTypeFilter ==
    /\ [][ StartStep =>
             \A i \in DOMAIN Started.providers :
                 IF ExcludesShell(Started.providers[i], Started.shellType)
                 THEN completionPromises'[i] = Promise("fulfilled", Undefined, Undefined)
                 ELSE completionPromises'[i].state = "pending"
         ]_vars
    /\ [](answer.state = "fulfilled" => answer.value = ExpectedOwnItems(ValueOf(call)))

\* A zsh request with P1, P2 (bash only) and P3 requested: the result is the
\* items of P1 and P3.
C7_Witness ==
    /\ answer.state = "fulfilled"
    /\ ValueOf(call).shellType = "zsh"
    /\ ValueOf(call).providers = <<"P1", "P2", "P3">>
    /\ provider["P2"].shellTypes = Some(<<"bash">>)
    /\ answer.value = <<ItemRef(1), ItemRef(3)>>

\* What the i-th requested provider contributes to the result.
Contribution(i) ==
    IF IsDefined(completionPromises[i].value) THEN ValueOf(completionPromises[i].value) ELSE <<>>

Rejected(i) == completionPromises[i].state = "rejected"

\* C1: when a provider's invocation throws or rejects, the request still
\* answers with a result, the contributions of the providers that did not
\* fail, in the order of the providers.
C1_FailureIsolation ==
    /\ answer.state # "rejected"
    /\ answer.state = "fulfilled"
         => answer.value = Flat([i \in DOMAIN completionPromises |->
                                   IF Rejected(i) THEN <<>> ELSE Contribution(i)])

\* The output of the path resolver for a resource request of the call in flight.
ResourcesOf(resourceRequestConfig) ==
    LET resourceCompletions ==
            _resolveResources(resourceRequestConfig, ValueOf(call).promptValue, ValueOf(call).cursorPosition)
    IN  IF IsDefined(resourceCompletions) THEN ValueOf(resourceCompletions) ELSE <<>>

\* What C8 says a returned value contributes.
NormalizedContribution(completions) ==
    CASE completions.kind = "undefined" -> <<>>
      [] completions.kind = "array" -> ItemRefs(ValueOf(completions.items))
      [] completions.kind = "list" ->
            (IF IsDefined(completions.items) THEN ItemRefs(ValueOf(completions.items)) ELSE <<>>)
            \o (IF IsDefined(completions.resourceRequestConfig)
                THEN ResourcesOf(ValueOf(completions.resourceRequestConfig)) ELSE <<>>)

\* C8: undefined contributes nothing, an array contributes itself, and a
\* completion list contributes its items (none when absent), followed by the
\* resolved resources when it carries a resource request.
C8_ReturnShapes ==
    \A i \in DOMAIN completionPromises :
        (completionPromises[i].state = "fulfilled" /\ IsDefined(completionPromises[i].completions))
        => Contribution(i) = NormalizedContribution(ValueOf(completionPromises[i].completions))

\* C9: whatever the order in which the promises settle, the value of the i-th
\* promise is kept in the i-th slot, a provider's contribution is its own items
\* in their order followed by resource completions only, and the result is the
\* contributions in the order of the requested providers.
C9_PositionalOrder ==
    /\ Len(results) = Len(completionPromises)
    /\ \A i \in DOMAIN completionPromises :
         /\ results[i] = IF completionPromises[i].state = "fulfilled"
                         THEN Some(completionPromises[i].value) ELSE Undefined
         /\ (completionPromises[i].state = "fulfilled" /\ IsDefined(completionPromises[i].value))
            => LET own == ItemRefs(CompletionItems(ValueOf(completionPromises[i].completions)))
                   value == ValueOf(completionPromises[i].value)
               IN  /\ Len(value) >= Len(own)
                   /\ SubSeq(value, 1, Len(own)) = own
                   /\ \A k \in (Len(own) + 1)..Len(value) : IsResourceCompletion(value[k])
    /\ answer.state = "fulfilled"
         => answer.value = Flat([i \in DOMAIN completionPromises |-> Contribution(i)])

\* The third of three providers has settled first, with its items and the
\* resources after them, and the first has settled after it with an array,
\* while the second is still running.
C9_Witness ==
    /\ Len(completionPromises) = 3
    /\ completionPromises[2].state = "pending"
    /\ completionPromises[1].state = "fulfilled"
    /\ completionPromises[3].state = "fulfilled"
    /\ ValueOf(completionPromises[1].completions) = ReturnsArray(<<1, 2>>)
    /\ ValueOf(completionPromises[3].completions) = ReturnsList(Some(<<2>>), Some(ListedCwd))
    /\ Len(Contribution(3)) > 1
    /\ results[2] = Undefined

\* d is a text that contains sub.
Contains(d, sub) ==
    /\ IsDefined(d)
    /\ \E a \in 0..Len(ValueOf(d)) : \E b \in a..Len(ValueOf(d)) : SubSeq(ValueOf(d), a + 1, b) = sub

\* '(<providerId>) '
PrefixOf(id) == <<"(">> \o id \o <<")", " ">>

\* The places of d at which sub starts.
Occurrences(d, sub) ==
    IF IsDefined(d)
    THEN {a \in 0..(Len(ValueOf(d)) - Len(sub)) : SubSeq(ValueOf(d), a + 1, a + Len(sub)) = sub}
    ELSE {}

\* The i-th provider hands back a value in this step.
ReturnStep(i) ==
    /\ i \in DOMAIN completionPromises
    /\ completionPromises[i].state = "pending"
    /\ completionPromises'[i].state \in {"fulfilled", "resolving"}

Returned(i) == ValueOf(completionPromises'[i].completions)

ReturnedItems(i) ==
    IF IsDefined(Returned(i).items)
    THEN {ValueOf(Returned(i).items)[k] : k \in DOMAIN ValueOf(Returned(i).items)}
    ELSE {}

\* C10: when a provider hands back items in dev mode, every item whose detail
\* does not contain the provider's id gets '(<id>) ' put before its detail
\* (before nothing when the detail is absent); no other detail changes, and
\* none in any other step or out of dev mode; no detail ever holds the prefix
\* of one id twice.
C10_DevModeAnnotation ==
    /\ [][ /\ \A i \in DOMAIN completionPromises : ReturnStep(i) =>
                \A n \in ItemObjects :
                    LET id == provider[ValueOf(call).providers[i]].id
                    IN  detail'[n] =
                            IF configuration.devMode /\ n \in ReturnedItems(i) /\ ~Contains(detail[n], id)
                            THEN Some(PrefixOf(id) \o (IF IsDefined(detail[n]) THEN ValueOf(detail[n]) ELSE <<>>))
                            ELSE detail[n]
           /\ (\A i \in DOMAIN completionPromises : ~ReturnStep(i)) => detail' = detail
         ]_vars
    /\ [](\A n \in ItemObjects : \A id \in ProviderIds :
            Cardinality(Occurrences(detail[n], PrefixOf(id))) <= 1)

\* Item 1, whose detail was absent, has gone through a provider with the id "g"
\* and then through one with the id "h"; item 3, whose detail "g" holds the
\* id "g", carries the prefix of "h" alone.
C10_Witness ==
    /\ configuration.devMode
    /\ detail[1] = Some(<<"(", "h", ")", " ", "(", "g", ")", " ">>)
    /\ detail[3] = Some(<<"(", "h", ")", " ", "g">>)
    /\ answer.state = "fulfilled"

\* The request before the one that has answered.
KeptRequest == ValueOf(ValueOf(previous).kept)

\* A second request has answered: it had the inputs and the provider outputs of
\* the request before it, and the registry (no registration since the first
\* request started: the handles are those given out by then) and the
\* configuration are those the first request started with.
SameRequest ==
    /\ IsDefined(previous)
    /\ IsDefined(ValueOf(previous).kept)
    /\ answer.state = "fulfilled"
    /\ ValueOf(call) = KeptRequest.call
    /\ Outputs = KeptRequest.outputs
    /\ ValueOf(previous).environment = KeptRequest.environment
    /\ Environment = ValueOf(previous).environment

\* C11: a request made again with the same prompt, cursor, shell type and mode,
\* the same registry, configuration and file system, and providers that hand
\* back the same values (the same item objects), answers with the same items
\* in the same order, with the same details, labels, kinds and replacement
\* ranges, in dev mode too.
C11_RequestDeterminism ==
    SameRequest => Result = KeptRequest.result

\* In dev mode, two providers have answered a second request as they answered
\* the first, with items that were annotated and with resource completions.
C11_Witness ==
    /\ SameRequest
    /\ configuration.devMode
    /\ Len(ValueOf(call).providers) >= 2
    /\ \E i \in DOMAIN answer.value : IsResourceCompletion(answer.value[i])
    /\ \E i \in DOMAIN answer.value :
         /\ ~IsResourceCompletion(answer.value[i])
         /\ detail[answer.value[i].item] # InitialDetail[answer.value[i].item]

\* The place of the last "/" of a path (0 when it has none).
LastSlash(path) ==
    LET at == {k \in DOMAIN path : path[k] = "/"}
    IN  IF at = {} THEN 0 ELSE CHOOSE k \in at : \A l \in at : l <= k

\* The name of a location within its directory, and that directory.
ChildName(path) == SubSeq(path, LastSlash(path) + 1, Len(path))
ParentDirectory(path) == IF LastSlash(path) <= 1 THEN <<"/">> ELSE SubSeq(path, 1, LastSlash(path) - 1)

\* The directory lists: it resolves, with children.
Lists(dir) == IsDefined(fileService(dir)) /\ IsDefined(ValueOf(fileService(dir)).children)
ChildrenOf(dir) == ValueOf(ValueOf(fileService(dir)).children)

Wanted(o) == o = Some(TRUE)

\* The i-th provider handed back a resource request, which has been resolved.
Resolved(i) ==
    /\ completionPromises[i].state = "fulfilled"
    /\ IsDefined(completionPromises[i].completions)
    /\ ValueOf(completionPromises[i].completions).kind = "list"
    /\ IsDefined(ValueOf(completionPromises[i].completions).resourceRequestConfig)

RequestOf(i) == ValueOf(ValueOf(completionPromises[i].completions).resourceRequestConfig)

\* The resource completions of the i-th provider's contribution.
ResourceItems(i) == SelectSeq(Contribution(i), IsResourceCompletion)

\* An item of the contribution is the completion of child stat under prefix.
Yields(i, stat, prefix) ==
    \E k \in DOMAIN ResourceItems(i) :
        /\ ResourceItems(i)[k].label = prefix \o <<"/">> \o ChildName(stat.resource.fsPath)
        /\ ResourceItems(i)[k].kind = IF stat.isDirectory THEN "Folder" ELSE "File"

\* C12: with files and folders requested and the separator "/", every child of
\* the working directory yields an item labelled "./<name>" of its kind, and
\* every child of the parent directory an item labelled "../<name>".
C12_PathLabels ==
    \A i \in DOMAIN completionPromises :
        (/\ Resolved(i)
         /\ Wanted(RequestOf(i).filesRequested) /\ Wanted(RequestOf(i).foldersRequested)
         /\ RequestOf(i).pathSeparator = <<"/">>
         /\ IsDefined(RequestOf(i).cwd)
         /\ ParentDirectory(ValueOf(RequestOf(i).cwd)) # ValueOf(RequestOf(i).cwd)
         /\ Lists(ValueOf(RequestOf(i).cwd))
         /\ Lists(ParentDirectory(ValueOf(RequestOf(i).cwd))))
        => LET cwd == ValueOf(RequestOf(i).cwd)
           IN  /\ \A k \in DOMAIN ChildrenOf(cwd) : Yields(i, ChildrenOf(cwd)[k], <<".">>)
               /\ \A k \in DOMAIN ChildrenOf(ParentDirectory(cwd)) :
                    Yields(i, ChildrenOf(ParentDirectory(cwd))[k], <<".", ".">>)

\* The items the i-th provider handed back itself.
OwnContribution(i) == ItemRefs(CompletionItems(ValueOf(completionPromises[i].completions)))

\* The resource request has no working directory, or wants neither files nor folders.
OptsOut(config) ==
    ~IsDefined(config.cwd) \/ (~Wanted(config.filesRequested) /\ ~Wanted(config.foldersRequested))

\* C13: a resource request without a working directory, or with "want files"
\* and "want folders" both false or absent, gets no resource completion and
\* has no directory listed, whatever the directories hold.
C13_ResolverOptOut ==
    \A i \in DOMAIN completionPromises :
        (Resolved(i) /\ OptsOut(RequestOf(i)))
        => /\ ResourceItems(i) = <<>>
           /\ Contribution(i) = OwnContribution(i)
           /\ resolved[i] = <<>>

\* Two resource requests have been resolved: one without a working directory,
\* one that wants nothing of a working directory that has children.
C13_Witness ==
    /\ Len(completionPromises) = 2
    /\ Resolved(1) /\ RequestOf(1) = NoCwd
    /\ Resolved(2) /\ RequestOf(2) = NothingRequested
    /\ ChildrenOf(ValueOf(RequestOf(2).cwd)) # <<>>
    /\ answer.state = "fulfilled"

\* C14: when the working directory or its parent does not list (no stat, or no
\* children), the resolver gives nothing, not even the completions of the
\* directory that listed, and the provider's contribution is its own items.
C14_StrictDependency ==
    \A i \in DOMAIN completionPromises :
        (/\ Resolved(i)
         /\ ~OptsOut(RequestOf(i))
         /\ \/ ~Lists(ValueOf(RequestOf(i).cwd))
            \/ ~Lists(ParentDirectory(ValueOf(RequestOf(i).cwd))))
        => /\ ResourceItems(i) = <<>>
           /\ Contribution(i) = OwnContribution(i)

\* The working directory /q/r listed (it has a file, and files were wanted) and
\* its parent was asked for and did not resolve: the provider's item alone.
C14_Witness ==
    \E i \in DOMAIN completionPromises :
        /\ Resolved(i)
        /\ RequestOf(i) = ParentUnlistedCwd
        /\ Lists(ValueOf(RequestOf(i).cwd))
        /\ ChildrenOf(ValueOf(RequestOf(i).cwd)) # <<>>
        /\ resolved[i] = << <<"/", "q", "/", "r">>, <<"/", "q">> >>
        /\ Contribution(i) = <<ItemRef(1)>>
        /\ answer.state = "fulfilled"

\* The number of children of the directories of a set.
RECURSIVE ChildCount(_)
ChildCount(dirs) ==
    IF dirs = {} THEN 0
    ELSE LET d == CHOOSE x \in dirs : TRUE
         IN  (IF Lists(d) THEN Len(ChildrenOf(d)) ELSE 0) + ChildCount(dirs \ {d})

\* C15: no directory is listed twice for one resource request (the root, which
\* is its own parent, is listed once), and there are no more completions than
\* the directories have children: no child yields two.
C15_DirectoryDeduplication ==
    \A i \in DOMAIN completionPromises :
        (Resolved(i) /\ ~OptsOut(RequestOf(i)))
        => LET cwd == ValueOf(RequestOf(i).cwd)
           IN  /\ \A a, b \in DOMAIN resolved[i] : resolved[i][a] = resolved[i][b] => a = b
               /\ Len(ResourceItems(i)) <= ChildCount({cwd, ParentDirectory(cwd)})

\* The longest end of a text that holds no space.
LastSegment(text) ==
    LET ends == {k \in 0..Len(text) : \A j \in (Len(text) - k + 1)..Len(text) : text[j] # " "}
        k == CHOOSE x \in ends : \A y \in ends : y <= x
    IN  SubSeq(text, Len(text) - k + 1, Len(text))

\* C16: every resource completion replaces from the cursor position less the
\* length of the last space-delimited segment of the prompt up to the cursor,
\* over the length of its own label; the start is within 0..cursorPosition,
\* and is the cursor position when the prompt up to the cursor is empty or
\* ends with a space.
C16_ReplacementRange ==
    \A i \in DOMAIN completionPromises : \A k \in DOMAIN ResourceItems(i) :
        LET c == ValueOf(call)
            text == UpToCursor(c)
            e == ResourceItems(i)[k]
        IN  /\ e.replacementIndex = c.cursorPosition - Len(LastSegment(text))
            /\ e.replacementLength = Len(e.label)
            /\ 0 <= e.replacementIndex /\ e.replacementIndex <= c.cursorPosition
            /\ (text = <<>> \/ text[Len(text)] = " ") => e.replacementIndex = c.cursorPosition

\* The cursor is within the second word of "c ./p", after "c .": the resource
\* completions replace from 2.
C16_Witness ==
    /\ IsDefined(call)
    /\ ValueOf(call).promptValue = <<"c", " ", ".", "/", "p">>
    /\ ValueOf(call).cursorPosition = 3
    /\ \E i \in DOMAIN completionPromises :
         /\ ResourceItems(i) # <<>>
         /\ ResourceItems(i)[1].replacementIndex = 2
         /\ ResourceItems(i)[1].label = <<".", "/", "p">>
         /\ ResourceItems(i)[1].replacementLength = 3

\* The provider's invocation has returned or thrown.
InvocationSettled(i) == completionPromises[i].state # "pending"

\* C17: when a request starts, every requested provider that the shell type
\* does not exclude is invoked at once, none waiting for another, and the
\* request does not complete, with a result or with an error, while an
\* invocation it started has not settled.
C17_FanOutJoinAll ==
    /\ [][ StartStep =>
             /\ Len(completionPromises') = Len(Started.providers)
             /\ \A i \in DOMAIN Started.providers :
                  ~ExcludesShell(Started.providers[i], Started.shellType)
                  => completionPromises'[i].state = "pending"
         ]_vars
    /\ [](answer.state \in {"fulfilled", "rejected"}
            => \A i \in DOMAIN completionPromises : InvocationSettled(i))

\* The items of the providers the request took at its start.
CapturedItems == Flat([i \in DOMAIN ValueOf(call).providers |-> ItemRefs(OwnItems(ValueOf(call).providers[i]))])

\* A step that registers a provider or disposes of a handle.
RegistryStep == handles' # handles

\* C18: the providers of a request are those of the registry when it starts,
\* and all of them are invoked then; a registration or a disposal while they
\* run leaves the request's providers, promises and values as they are; and
\* the result is the contributions of the providers taken at the start, in
\* their order, whatever the registry holds by then.
C18_RegistrySnapshot ==
    /\ [][ StartStep =>
             /\ Started.providers = providers(_providers)
             /\ \A i \in DOMAIN Started.providers : completionPromises'[i].state = "pending"
         ]_vars
    /\ [][ (answer.state = "pending" /\ RegistryStep)
             => /\ call' = call
                /\ completionPromises' = completionPromises
                /\ results' = results
                /\ answer' = answer
         ]_vars
    /\ [](answer.state = "fulfilled" => answer.value = CapturedItems)

\* A request of P1 and P2 is in flight: P1 was disposed of and P3 registered
\* since it started, P1 has contributed its item and P2 is still running.
C18_Witness ==
    /\ answer.state = "pending"
    /\ ValueOf(call).providers = <<"P1", "P2">>
    /\ providers(_providers) = <<"P2", "P3">>
    /\ completionPromises[1].state = "fulfilled"
    /\ results[1] = Some(Some(<<ItemRef(1)>>))
    /\ completionPromises[2].state = "pending"

\* C19: no extension of the registry has an empty provider map, and an
\* extension is in the registry exactly when a provider is registered under it.
C19_NamespaceCleanup ==
    /\ \A i \in DOMAIN _providers : Len(_providers[i].value) > 0
    /\ \A e \in ExtensionIds :
         MapHas(_providers, e)
         <=> \E id \in ProviderIds : IsRegistered(_providers, e, id)

\* The only provider of one extension was disposed of while another extension
\* keeps a provider: the first extension is gone, the second is there.
C19_Witness ==
    \E h \in DOMAIN handles :
        /\ handles[h].isDisposed
        /\ ~MapHas(_providers, handles[h].extensionIdentifier)
        /\ \E e \in ExtensionIds : MapHas(_providers, e) /\ Len(MapGet(_providers, e)) > 0

\* The provider registered under a handle's key.
StoredUnder(reg, h) == MapGet(MapGet(reg, h.extensionIdentifier), h.id)

\* Handle h was returned by the last registration under the key of the
\* registration of this step, and has not been disposed of.
HandleOfReplaced(h) ==
    /\ SameKey(handles[h], NewHandle)
    /\ ~handles[h].isDisposed
    /\ \A h3 \in DOMAIN handles : h3 > h => ~SameKey(handles[h3], NewHandle)

\* C20: when provider B is registered under the key of provider A, the first
\* dispose() of the handle of A's registration (which runs the function the
\* handle was made with) leaves B registered under the key and the
\* enumeration as it is.
C20_HandleOwnership ==
    [][ RegisterStep =>
          \A h \in DOMAIN handles :
              (/\ HandleOfReplaced(h)
               /\ IsRegistered(_providers, NewHandle.extensionIdentifier, NewHandle.id)
               /\ StoredUnder(_providers, NewHandle) # StoredUnder(_providers', NewHandle))
              => LET after == DisposeFn(_providers', handles'[h].extensionIdentifier, handles'[h].id)
                 IN  /\ IsRegistered(after, NewHandle.extensionIdentifier, NewHandle.id)
                     /\ StoredUnder(after, NewHandle) = StoredUnder(_providers', NewHandle)
                     /\ providers(after) = providers(_providers')
      ]_vars

====
